---- MODULE Spec2Model ----
(***************************************************************************)
(* Poll mutation and vote integrity core of ALX Polly: the server actions  *)
(* createPoll, updatePoll, deletePoll and submitVote (poll-actions.ts)     *)
(* running against the polls/votes tables of the Supabase schema.          *)
(*                                                                         *)
(* Every server action is an independent unit of work.  Its steps that     *)
(* touch the store are the only points where requests interleave, so an    *)
(* action with one store call is one atomic step, and submitVote, which    *)
(* makes three store calls (read poll, read existing vote, insert vote),   *)
(* is three steps of an in-flight request.                                 *)
(***************************************************************************)
EXTENDS Integers, Sequences, FiniteSets, Bags, TLC

\* ---------------------------------------------------------------- bounds
MaxPolls == 1        \* polls ever created
MaxReqs == 2         \* submitVote requests that get past the poll read
MaxListed == 2       \* polls ever created where lists are looked at

\* the form: the events handled before the component is rendered again
MaxUnrendered == 2

\* ------------------------------------------------------- program constants
MaxQuestionLen == 500
MaxOptionLen == 200
MinOptions == 2
MaxOptions == 10

\* PollCreateForm: options.length > 2 (lines 120, 178) and
\* options.length >= 10 (line 196)
FormMinOptions == 2
FormMaxOptions == 10

\* ------------------------------------------------------------ identities
Users == {"u1", "u2"}
None == "none"                       \* auth.getUser() returned no user
Principals == Users \cup {None}

\* the well-formed UUIDs: the ids of the polls that can be created
MaxIds == IF MaxListed > MaxPolls THEN MaxListed ELSE MaxPolls
PollIds == 1..MaxIds
BadId == 0                           \* an id that is not a UUID
NoId == 0 - 1                        \* a return value without an identifier
IdInputs == PollIds \cup {BadId}
\* optionIndex inputs: negative, valid for every poll, valid only for a poll
\* of three options, valid for none
OptionIndexes == {0 - 1, 0, 2, 3}

NoPoll == [user_id |-> None, question |-> <<>>, options |-> <<>>,
           created_at |-> 0]

\* --------------------------------------------------------------- strings
\* A string is a sequence of runs <<ch, n>>: n >= 1 copies of character ch.
Run(ch, n) == <<ch, n>>
Blank == " "

RECURSIVE StrLen(_)
StrLen(s) == IF s = <<>> THEN 0 ELSE s[1][2] + StrLen(Tail(s))

RECURSIVE TrimStart(_)
TrimStart(s) ==
    IF s = <<>> THEN <<>>
    ELSE IF s[1][1] = Blank THEN TrimStart(Tail(s)) ELSE s

RECURSIVE TrimEnd(_)
TrimEnd(s) ==
    IF s = <<>> THEN <<>>
    ELSE IF s[Len(s)][1] = Blank THEN TrimEnd(SubSeq(s, 1, Len(s) - 1)) ELSE s

\* String.prototype.trim
Trim(s) == TrimEnd(TrimStart(s))

\* formData.getAll("options").filter(Boolean): drops the empty strings
FilterBoolean(options) == SelectSeq(options, LAMBDA o : o # <<>>)

MapTrim(options) == [i \in 1..Len(options) |-> Trim(options[i])]

\* ---------------------------------------------------------------- inputs
Q1 == <<Run("a", 1)>>
Q2Padded == <<Run(Blank, 1), Run("b", 1), Run(Blank, 1)>>
QBlank == <<Run(Blank, 2)>>

OptA == <<Run("a", 1)>>
OptB == <<Run("b", 1)>>
OptC == <<Run(Blank, 1), Run("c", 1)>>

\* (question, options) payloads of createPoll and updatePoll: two valid ones
\* with different numbers of options, a blank question, a single option
Payloads == {<<Q1, <<OptA, OptB>>>>,
             <<Q2Padded, <<OptA, OptB, OptC>>>>,
             <<QBlank, <<OptA, OptB>>>>,
             <<Q1, <<OptA>>>>}

\* payloads at the edges of the validation rules
QEmpty == <<>>
QMaxLen == <<Run("q", MaxQuestionLen)>>
QTooLong == <<Run("q", MaxQuestionLen + 1)>>
QMaxLenPadded == <<Run(Blank, 1), Run("q", MaxQuestionLen)>>
ValidationQuestions ==
    {Q1, Q2Padded, QBlank, QEmpty, QMaxLen, QTooLong, QMaxLenPadded}

\* n different options
Opts(n) == [i \in 1..n |-> <<Run("o", i)>>]
OptEmpty == <<>>
OptBlank == <<Run(Blank, 1)>>
OptMaxLen == <<Run("x", MaxOptionLen)>>
OptTooLong == <<Run("x", MaxOptionLen + 1)>>
OptMaxLenPadded == <<Run("x", MaxOptionLen), Run(Blank, 1)>>
ValidationOptionLists ==
    {<<>>, Opts(MinOptions - 1), Opts(MinOptions), Opts(MaxOptions),
     Opts(MaxOptions + 1), <<OptEmpty>> \o Opts(MaxOptions),
     <<OptA, OptEmpty>>, <<OptA, OptEmpty, OptB>>, <<OptA, OptBlank, OptB>>,
     <<OptA, OptMaxLen>>, <<OptA, OptTooLong>>, <<OptA, OptMaxLenPadded>>,
     <<OptC, OptB, OptA>>}

ValidationPayloads ==
    {<<q, <<OptA, OptB>>>> : q \in ValidationQuestions}
        \cup {<<Q1, os>> : os \in ValidationOptionLists}
        \cup {<<QBlank, <<OptA>>>>, <<QTooLong, <<OptA, OptTooLong>>>>}

\* ------------------------------------------------------------ validation
RECURSIVE CheckOptions(_, _)
\* the for-loop over options, first failing option first
CheckOptions(options, i) ==
    IF i > Len(options) THEN "Ok"
    ELSE IF StrLen(Trim(options[i])) = 0 THEN "EmptyOption"
    ELSE IF StrLen(options[i]) > MaxOptionLen THEN "OptionTooLong"
    ELSE CheckOptions(options, i + 1)

\* createPoll's validation phase; options are already filter(Boolean)ed
CreateValidate(question, options) ==
    IF question = <<>> \/ StrLen(Trim(question)) = 0 THEN "EmptyQuestion"
    ELSE IF StrLen(question) > MaxQuestionLen THEN "QuestionTooLong"
    ELSE IF Len(options) < MinOptions THEN "TooFewOptions"
    ELSE IF Len(options) > MaxOptions THEN "TooManyOptions"
    ELSE CheckOptions(options, 1)

\* a copy of the checks that looks at the number of options first
UpdateValidateOptionsFirst(question, options) ==
    IF Len(options) < MinOptions THEN "TooFewOptions"
    ELSE IF Len(options) > MaxOptions THEN "TooManyOptions"
    ELSE IF question = <<>> \/ StrLen(Trim(question)) = 0 THEN "EmptyQuestion"
    ELSE IF StrLen(question) > MaxQuestionLen THEN "QuestionTooLong"
    ELSE CheckOptions(options, 1)

\* updatePoll's validation phase (a second copy of the same checks)
UpdateValidate(question, options) ==
    IF question = <<>> \/ StrLen(Trim(question)) = 0 THEN "EmptyQuestion"
    ELSE IF StrLen(question) > MaxQuestionLen THEN "QuestionTooLong"
    ELSE IF Len(options) < MinOptions THEN "TooFewOptions"
    ELSE IF Len(options) > MaxOptions THEN "TooManyOptions"
    ELSE CheckOptions(options, 1)

\* uuidRegex.test(pollId)
UuidRegexTest(id) == id \in PollIds


\* ---------------------------------------------------------- rate limiter
MaxTime == 4         \* the clock stops here

\* the action names and the maxAttempts and windowMs arguments of the calls
RateActions == {"create_poll"}
AttemptLimits == {1, 2}
WindowLengths == {1, 2}

\* `${userId}:${action}`
RateKey(userId, action) == <<userId, action>>
RateKeys == {RateKey(u, a) : u \in Users, a \in RateActions}

\* rateLimits.get(key) of a key that is not in the Map
NoEntry == [count |-> 0 - 1, resetTime |-> 0 - 1]

NoRateResult == [key |-> <<>>, maxAttempts |-> 0, windowMs |-> 0,
                 at |-> 0 - 1, allowed |-> FALSE, remaining |-> 0 - 1, resetTime |-> 0 - 1]

\* ------------------------------------------------------------ middleware
\* request.nextUrl.pathname: a sequence of characters
PathLogin == <<"/", "l", "o", "g", "i", "n">>
PathRegister == <<"/", "r", "e", "g", "i", "s", "t", "e", "r">>
PathAuth == <<"/", "a", "u", "t", "h">>
PathAdmin == <<"/", "a", "d", "m", "i", "n">>
PathRoot == <<"/">>
PathPolls == <<"/", "p", "o", "l", "l", "s">>
PathCreate == <<"/", "c", "r", "e", "a", "t", "e">>
PathLoginSub == PathLogin \o <<"/", "x">>
PathLoginLonger == PathLogin \o <<"x">>
PathLog == <<"/", "l", "o", "g">>
PathNestedLogin == <<"/", "x">> \o PathLogin
PathAuthCallback == PathAuth \o <<"/", "c", "b">>
PathAdminUsers == PathAdmin \o <<"/", "u">>
PathAu == <<"/", "a", "u">>

Pathnames == {PathLogin, PathRegister, PathAuth, PathAdmin, PathRoot,
              PathPolls, PathCreate, PathLoginSub, PathLoginLonger, PathLog,
              PathNestedLogin, PathAuthCallback, PathAdminUsers, PathAu}

\* the session cookies of a request: none, the session of a user, a session
\* of a user that getUser() has to refresh, cookies that are no session
Sessions == {[kind |-> "none", user |-> None],
             [kind |-> "garbage", user |-> None]}
                \cup {[kind |-> k, user |-> u] :
                          k \in {"valid", "refresh"}, u \in Users}

NoRequest == [cookies |-> [kind |-> "none", user |-> None], pathname |-> <<>>]

NoResponse == [kind |-> "none", location |-> <<>>, setCookies |-> FALSE,
               user |-> None, pathname |-> <<>>]

\* ----------------------------------------------------------------- state
VARIABLES
    polls,      \* polls table: id -> row, NoPoll where there is no row
    nextId,     \* the next id gen_random_uuid() hands out
    votes,      \* votes table: a bag of rows [poll_id, user_id, option_index]
    reqs,       \* submitVote requests past the poll read: a bag of
                \* [pc, user, pollId, optionIndex, result]
    response,   \* the value a call is returning to its caller, NoCall if none
    rateLimits, \* the rate limiter's Map: key -> {count, resetTime}
    now,        \* Date.now()
    allowedLog, \* per key, the resetTime told to each call that was allowed
    rateResult, \* the value the last checkRateLimit call returned, with the
                \* key, the maxAttempts and the time of the call
    mwRequest,  \* the request the middleware has to handle, NoRequest if none
    mwResponse, \* the response of updateSession to the last request, with
                \* the user and the pathname of that request
    formOptions, \* PollCreateForm: the options state, with the updates
                 \* that are queued applied
    rendered,   \* the options the last render of the form has seen
    unrendered  \* the events handled since that render

\* the state of the server actions
appVars == <<polls, nextId, votes, reqs, response>>
\* the state of the rate limiter
rateVars == <<rateLimits, now, allowedLog, rateResult>>
\* the state of the middleware
mwVars == <<mwRequest, mwResponse>>
\* the state of the poll creation form
formVars == <<formOptions, rendered, unrendered>>
\* the state the server actions do not touch
auxVars == <<rateVars, mwVars, formVars>>

vars == <<appVars, auxVars>>

NoCall == [op |-> "none", principal |-> None, pollId |-> BadId,
           payload |-> <<>>, optionIndex |-> 0,
           result |-> "none", mutated |-> FALSE, owner |-> None,
           poll |-> NoPoll, list |-> <<>>, storeError |-> "none",
           returnedId |-> NoId]

Init ==
    /\ polls = [id \in PollIds |-> NoPoll]
    /\ nextId = 1
    /\ votes = EmptyBag
    /\ reqs = EmptyBag
    /\ response = NoCall
    /\ rateLimits = [k \in RateKeys |-> NoEntry]
    /\ now = 0
    /\ allowedLog = [k \in RateKeys |-> EmptyBag]
    /\ rateResult = NoRateResult
    /\ mwRequest = NoRequest
    /\ mwResponse = NoResponse
    /\ formOptions = <<"", "">>
    /\ rendered = <<"", "">>
    /\ unrendered = 0

PollExists(id) == id \in PollIds /\ polls[id] # NoPoll

\* the owner of the row with this id, None where there is no such row
OwnerOf(ps, id) == IF id \in PollIds THEN ps[id].user_id ELSE None

\* A call hands its result to the caller without touching the store; the
\* caller takes it before the next store step is looked at.
Return ==
    /\ response # NoCall
    /\ UNCHANGED auxVars
    /\ response' = NoCall
    /\ UNCHANGED <<polls, nextId, votes, reqs>>

\* ----------------------------------------------------------------- store
\* a vote row whose user_id is not the user of the request
VoteRowFixedVoter(pollId, user, optionIndex) ==
    [poll_id |-> pollId, user_id |-> "u1", option_index |-> optionIndex]

\* lines 333-339: poll_id: pollId, user_id: user.id, option_index
VoteRow(pollId, user, optionIndex) ==
    [poll_id |-> pollId, user_id |-> user, option_index |-> optionIndex]

\* rows of votes with the given poll_id and user_id
VotesOf(vs, pollId, user) ==
    {v \in BagToSet(vs) : v.poll_id = pollId /\ v.user_id = user}

\* number of rows of votes with the given poll_id and user_id
VoteCount(vs, pollId, user) ==
    BagCardinality([v \in VotesOf(vs, pollId, user) |-> vs[v]])

\* the votes table without its UNIQUE(poll_id, user_id) constraint
InsertVoteErrorNoUnique(ps, vs, row) ==
    IF row.poll_id \notin PollIds THEN "InvalidUuid"
    ELSE IF row.option_index < 0 THEN "CheckViolation"
    ELSE IF ps[row.poll_id] = NoPoll THEN "ForeignKeyViolation"
    ELSE "Ok"

\* the votes table without the foreign key on poll_id
InsertVoteErrorNoForeignKey(ps, vs, row) ==
    IF row.poll_id \notin PollIds THEN "InvalidUuid"
    ELSE IF row.option_index < 0 THEN "CheckViolation"
    ELSE IF VotesOf(vs, row.poll_id, row.user_id) # {} THEN "DuplicateKey"
    ELSE "Ok"

\* INSERT INTO votes: the table's constraints decide; "Ok" or the violation
InsertVoteError(ps, vs, row) ==
    IF row.poll_id \notin PollIds THEN "InvalidUuid"
    ELSE IF row.option_index < 0 THEN "CheckViolation"
    ELSE IF ps[row.poll_id] = NoPoll THEN "ForeignKeyViolation"
    ELSE IF VotesOf(vs, row.poll_id, row.user_id) # {} THEN "DuplicateKey"
    ELSE "Ok"

\* ON DELETE CASCADE of votes.poll_id
CascadeDelete(vs, pollId) ==
    LET keep == {v \in BagToSet(vs) : v.poll_id # pollId}
    IN  [v \in keep |-> vs[v]]

\* ------------------------------------------------------------ createPoll
\* createPoll without its check of the user
CreatePollResultNoAuth(p, question, options) ==
    CreateValidate(question, FilterBoolean(options))

CreatePollResult(p, question, options) ==
    LET v == CreateValidate(question, FilterBoolean(options))
    IN  IF v # "Ok" THEN v
        ELSE IF p = None THEN "Unauthenticated"
        ELSE "Ok"

\* a row inserted for a user other than the caller
PollRowFixedOwner(p, question, options, created) ==
    [user_id |-> "u1", question |-> Trim(question),
     options |-> MapTrim(options), created_at |-> created]

\* lines 131-137: the inserted row; created_at is the table's DEFAULT NOW()
PollRow(p, question, options, created) ==
    [user_id |-> p, question |-> Trim(question),
     options |-> MapTrim(options), created_at |-> created]

\* a createPoll that hands the id of the inserted row back
CreatePollReturnWithId(newId) == newId

\* line 145: return { error: null }; the id of the inserted row is not read
CreatePollReturn(newId) == NoId

\* response.pollId is the id the store gave the inserted row, response
\* .returnedId the identifier in the value handed to the caller
\* created is the NOW() of the insert, cap the number of polls ever created
CreatePollAt(p, payload, cap, created) ==
    LET question == payload[1]
        options == payload[2]
        res == CreatePollResult(p, question, options)
    IN  /\ response = NoCall
        /\ UNCHANGED auxVars
        /\ res = "Ok" => nextId <= cap
        /\ IF res = "Ok"
           THEN /\ polls' = [polls EXCEPT ![nextId] =
                                PollRow(p, question, FilterBoolean(options),
                                        created)]
                /\ nextId' = nextId + 1
           ELSE UNCHANGED <<polls, nextId>>
        /\ UNCHANGED <<votes, reqs>>
        /\ response' = [NoCall EXCEPT !.op = "createPoll", !.principal = p,
                           !.payload = payload,
                           !.pollId = IF res = "Ok" THEN nextId ELSE BadId,
                           !.returnedId = IF res = "Ok"
                                          THEN CreatePollReturn(nextId)
                                          ELSE NoId,
                           !.result = res, !.mutated = (polls' # polls)]

\* createPoll where no two polls are created at the same time
CreatePoll(p, payload) == CreatePollAt(p, payload, MaxPolls, nextId)

\* the latest created_at of the table
RECURSIVE LatestCreated(_, _)
LatestCreated(ps, ids) ==
    IF ids = {} THEN 0
    ELSE LET id == CHOOSE i \in ids : TRUE
             rest == LatestCreated(ps, ids \ {id})
         IN  IF ps[id].created_at > rest THEN ps[id].created_at ELSE rest

\* createPoll at the time of the latest poll or later
CreatePollTimed(p, payload) ==
    \E created \in {LatestCreated(polls, PollIds),
                    LatestCreated(polls, PollIds) + 1} :
        CreatePollAt(p, payload, MaxListed, created)

\* ----------------------------------------------------------- getPollById
\* .from("polls").select("*").eq("id", id).single(): the store's error
GetPollResult(ps, id) ==
    IF id \notin PollIds THEN "InvalidUuid"
    ELSE IF ps[id] = NoPoll THEN "NoRows"
    ELSE "Ok"

\* the row getPollById returns, NoPoll for poll: null
GetPollData(ps, id) ==
    IF GetPollResult(ps, id) = "Ok" THEN ps[id] ELSE NoPoll

\* a SELECT policy that shows a poll to its owner only
PollsSelectPolicyOwnerOnly(p, row) == row.user_id = p

\* CREATE POLICY "Users can view all polls" ON polls FOR SELECT USING (true)
PollsSelectPolicy(p, row) == TRUE

\* the polls table as a SELECT of principal p sees it
VisiblePolls(ps, p) ==
    [id \in PollIds |-> IF ps[id] # NoPoll /\ PollsSelectPolicy(p, ps[id])
                        THEN ps[id] ELSE NoPoll]

GetPollById(p, id) ==
    /\ response = NoCall
    /\ UNCHANGED auxVars
    /\ UNCHANGED <<polls, nextId, votes, reqs>>
    /\ response' = [NoCall EXCEPT !.op = "getPollById", !.principal = p,
                       !.pollId = id,
                       !.result = GetPollResult(VisiblePolls(polls, p), id),
                       !.poll = GetPollData(VisiblePolls(polls, p), id),
                       !.owner = OwnerOf(polls, id),
                       !.mutated = (polls' # polls \/ votes' # votes)]

\* ---------------------------------------------------------- getUserPolls
\* the orders in which a set of ids can be listed
RECURSIVE Orders(_)
Orders(ids) ==
    IF ids = {} THEN {<<>>}
    ELSE UNION {{<<id>> \o rest : rest \in Orders(ids \ {id})} : id \in ids}

\* .order("created_at", { ascending: true })
NewestFirstListsAscending(ps, ids) ==
    {list \in Orders(ids) :
         \A i, j \in 1..Len(list) :
             i < j => ps[list[i]].created_at <= ps[list[j]].created_at}

\* .order("created_at", { ascending: false }): the lists the store can
\* return; rows of the same created_at come in any order
NewestFirstLists(ps, ids) ==
    {list \in Orders(ids) :
         \A i, j \in 1..Len(list) :
             i < j => ps[list[i]].created_at >= ps[list[j]].created_at}

\* the query without its .eq("user_id", user.id) filter
UserPollIdsAll(ps, user) == {id \in PollIds : ps[id] # NoPoll}

\* .from("polls").select("*").eq("user_id", user.id): the ids of the rows
UserPollIds(ps, user) ==
    {id \in PollIds : ps[id] # NoPoll /\ ps[id].user_id = user}

GetUserPollsResult(p) == IF p = None THEN "Unauthenticated" ELSE "Ok"

GetUserPolls(p) ==
    /\ response = NoCall
    /\ UNCHANGED auxVars
    /\ UNCHANGED <<polls, nextId, votes, reqs>>
    /\ \E list \in IF p = None THEN {<<>>}
                    ELSE NewestFirstLists(polls, UserPollIds(polls, p)) :
           response' = [NoCall EXCEPT !.op = "getUserPolls", !.principal = p,
                           !.result = GetUserPollsResult(p),
                           !.list = list,
                           !.mutated = (polls' # polls \/ votes' # votes)]

\* ------------------------------------------------------------ deletePoll
\* .from("polls").delete().eq("id", id).eq("user_id", user.id): the rows hit
DeleteMatches(ps, user, id) ==
    id \in PollIds /\ ps[id] # NoPoll /\ ps[id].user_id = user

\* a delete that reads the poll first and reports what it found
DeletePollResultReadFirst(ps, p, id) ==
    IF p = None THEN "Unauthenticated"
    ELSE IF id \notin PollIds THEN "InvalidUuid"
    ELSE IF ps[id] = NoPoll THEN "PollNotFound"
    ELSE IF ps[id].user_id # p THEN "Forbidden"
    ELSE "Ok"

DeletePollResult(ps, p, id) ==
    IF p = None THEN "Unauthenticated"
    ELSE IF id \notin PollIds THEN "InvalidUuid"
    ELSE "Ok"

DeletePoll(p, id) ==
    LET res == DeletePollResult(polls, p, id)
        hit == res = "Ok" /\ DeleteMatches(polls, p, id)
    IN  /\ response = NoCall
        /\ UNCHANGED auxVars
        /\ polls' = IF hit THEN [polls EXCEPT ![id] = NoPoll] ELSE polls
        /\ votes' = IF hit THEN CascadeDelete(votes, id) ELSE votes
        /\ UNCHANGED <<nextId, reqs>>
        /\ response' = [NoCall EXCEPT !.op = "deletePoll", !.principal = p,
                           !.pollId = id, !.result = res,
                           !.owner = OwnerOf(polls, id),
                           !.mutated = (polls' # polls \/ votes' # votes)]

\* ------------------------------------------------------------ updatePoll
\* the update without its .eq("user_id", user.id) filter
UpdateMatchesAnyOwner(ps, user, id) ==
    id \in PollIds /\ ps[id] # NoPoll

\* .update({question, options}).eq("id", pollId).eq("user_id", user.id)
UpdateMatches(ps, user, id) ==
    id \in PollIds /\ ps[id] # NoPoll /\ ps[id].user_id = user

\* updatePoll asking for the user before it validates
UpdatePollResultAuthFirst(ps, p, id, question, options) ==
    LET v == UpdateValidate(question, FilterBoolean(options))
    IN  IF p = None THEN "Unauthenticated"
        ELSE IF v # "Ok" THEN v
        ELSE IF ~UuidRegexTest(id) THEN "MalformedId"
        ELSE "Ok"

\* updatePoll testing the format of the id before it validates
UpdatePollResultIdFirst(ps, p, id, question, options) ==
    LET v == UpdateValidate(question, FilterBoolean(options))
    IN  IF ~UuidRegexTest(id) THEN "MalformedId"
        ELSE IF v # "Ok" THEN v
        ELSE IF p = None THEN "Unauthenticated"
        ELSE "Ok"

UpdatePollResult(ps, p, id, question, options) ==
    LET v == UpdateValidate(question, FilterBoolean(options))
    IN  IF v # "Ok" THEN v
        ELSE IF ~UuidRegexTest(id) THEN "MalformedId"
        ELSE IF p = None THEN "Unauthenticated"
        ELSE "Ok"

\* an update that writes the question and leaves the options
UpdatedRowQuestionOnly(row, question, options) ==
    [row EXCEPT !.question = Trim(question)]

\* an update that also sets created_at
UpdatedRowTouchesCreatedAt(row, question, options) ==
    [row EXCEPT !.question = Trim(question), !.options = MapTrim(options),
                !.created_at = @ + 1]

\* lines 527-534: one UPDATE statement sets question and options of the row
UpdatedRow(row, question, options) ==
    [row EXCEPT !.question = Trim(question), !.options = MapTrim(options)]

UpdatePoll(p, id, payload) ==
    LET question == payload[1]
        options == payload[2]
        res == UpdatePollResult(polls, p, id, question, options)
        hit == res = "Ok" /\ UpdateMatches(polls, p, id)
    IN  /\ response = NoCall
        /\ UNCHANGED auxVars
        /\ polls' = IF hit
                    THEN [polls EXCEPT ![id] =
                             UpdatedRow(polls[id], question,
                                        FilterBoolean(options))]
                    ELSE polls
        /\ UNCHANGED <<nextId, votes, reqs>>
        /\ response' = [NoCall EXCEPT !.op = "updatePoll", !.principal = p,
                           !.pollId = id, !.payload = payload,
                           !.result = res, !.owner = OwnerOf(polls, id),
                           !.mutated = (polls' # polls)]

\* ------------------------------------------------------------ submitVote
\* a request past the poll read: its position, its arguments, the number of
\* options it read (poll.options.length), the error of its insert, its result
Req(pc, user, pollId, optionIndex, optionCount) ==
    [pc |-> pc, user |-> user, pollId |-> pollId,
     optionIndex |-> optionIndex, optionCount |-> optionCount,
     storeError |-> "none", result |-> "none"]

\* the request q moves on to be the request q2
Move(q, q2) == (reqs (-) SetToBag({q})) (+) SetToBag({q2})

\* the requests of this voter on this poll at position pc
ReqsAt(pc, pollId, user) ==
    {q \in BagToSet(reqs) : q.pc = pc /\ q.pollId = pollId /\ q.user = user}

\* how many requests of the bag are in the set qs
CountReqs(qs) == BagCardinality([q \in qs |-> reqs[q]])

\* lines 293-316: authentication, the read of the poll, the index check
\* the read of the poll before the check of the user
SubmitVoteFirstResultPollFirst(ps, p, id, idx) ==
    IF id \notin PollIds \/ ps[id] = NoPoll THEN "PollNotFound"
    ELSE IF p = None THEN "Unauthenticated"
    ELSE IF idx < 0 \/ idx >= Len(ps[id].options) THEN "InvalidOptionIndex"
    ELSE "Ok"

\* the index check with > in place of >=
SubmitVoteFirstResultOffByOne(ps, p, id, idx) ==
    IF p = None THEN "Unauthenticated"
    ELSE IF id \notin PollIds \/ ps[id] = NoPoll THEN "PollNotFound"
    ELSE IF idx < 0 \/ idx > Len(ps[id].options) THEN "InvalidOptionIndex"
    ELSE "Ok"

SubmitVoteFirstResult(ps, p, id, idx) ==
    IF p = None THEN "Unauthenticated"
    ELSE IF id \notin PollIds \/ ps[id] = NoPoll THEN "PollNotFound"
    ELSE IF idx < 0 \/ idx >= Len(ps[id].options) THEN "InvalidOptionIndex"
    ELSE "Ok"

SubmitVoteFetchPoll(p, id, idx) ==
    LET res == SubmitVoteFirstResult(polls, p, id, idx)
    IN  /\ response = NoCall
        /\ UNCHANGED auxVars
        /\ UNCHANGED <<polls, nextId, votes>>
        /\ IF res = "Ok"
           THEN /\ BagCardinality(reqs) < MaxReqs
                /\ reqs' = reqs (+) SetToBag({Req("checkVote", p, id, idx,
                                                  Len(polls[id].options))})
                /\ UNCHANGED response
           ELSE /\ response' = [NoCall EXCEPT !.op = "submitVote",
                                   !.principal = p, !.pollId = id,
                                   !.optionIndex = idx, !.result = res,
                                   !.owner = OwnerOf(polls, id),
                                   !.mutated = (polls' # polls
                                                \/ votes' # votes)]
                /\ UNCHANGED reqs

\* a request that stays where it is while another request of the same voter
\* on the same poll is at the read of the existing vote
AfterCheckWaiting(q, existingVote) ==
    IF CountReqs(ReqsAt("checkVote", q.pollId, q.user)) > 1 THEN q
    ELSE IF existingVote
    THEN [q EXCEPT !.pc = "done", !.result = "AlreadyVoted"]
    ELSE [q EXCEPT !.pc = "insert"]

\* lines 327-332: the request after the read of the existing vote; it
\* returns or goes on to the insert, whatever other requests do
AfterCheck(q, existingVote) ==
    IF existingVote
    THEN [q EXCEPT !.pc = "done", !.result = "AlreadyVoted"]
    ELSE [q EXCEPT !.pc = "insert"]

\* lines 318-330: the read of an existing vote
SubmitVoteCheckExisting(q) ==
    LET existingVote == VotesOf(votes, q.pollId, q.user) # {}
    IN  /\ response = NoCall
        /\ UNCHANGED auxVars
        /\ q.pc = "checkVote"
        /\ reqs' = Move(q, AfterCheck(q, existingVote))
        /\ UNCHANGED <<polls, nextId, votes, response>>

\* a submitVote that reports a failure whatever the insert did
InsertResultFailure(err) == IF err = "Ok" THEN "DuplicateKey" ELSE err

\* line 342: if (error) return { error: error.message }
InsertResult(err) == err

\* an upsert: a row of the same (poll_id, user_id) is replaced
VotesAfterUpsert(ps, vs, row) ==
    LET err == InsertVoteError(ps, vs, row)
        others == {v \in BagToSet(vs) : \/ v.poll_id # row.poll_id
                                        \/ v.user_id # row.user_id}
    IN  IF err = "Ok" THEN vs (+) SetToBag({row})
        ELSE IF err = "DuplicateKey"
        THEN [v \in others |-> vs[v]] (+) SetToBag({row})
        ELSE vs

\* .from("votes").insert({...}): the table after the statement
VotesAfterInsert(ps, vs, row) ==
    LET err == InsertVoteError(ps, vs, row)
    IN  IF err = "Ok" THEN vs (+) SetToBag({row}) ELSE vs

\* lines 332-345: the insert of the vote
SubmitVoteInsert(q) ==
    LET row == VoteRow(q.pollId, q.user, q.optionIndex)
        err == InsertVoteError(polls, votes, row)
    IN  /\ response = NoCall
        /\ UNCHANGED auxVars
        /\ q.pc = "insert"
        /\ votes' = VotesAfterInsert(polls, votes, row)
        /\ reqs' = Move(q, [q EXCEPT !.pc = "done", !.storeError = err,
                                     !.result = InsertResult(err)])
        /\ UNCHANGED <<polls, nextId, response>>

\* ------------------------------------------------------------------ next
Next ==
    \/ \E p \in Principals, pl \in Payloads : CreatePoll(p, pl)
    \/ \E p \in Principals, id \in IdInputs, pl \in Payloads :
           UpdatePoll(p, id, pl)
    \/ \E p \in Principals, id \in IdInputs : DeletePoll(p, id)
    \/ \E p \in Principals, id \in IdInputs : GetPollById(p, id)
    \/ \E p \in Principals : GetUserPolls(p)
    \/ \E p \in Principals, id \in IdInputs, idx \in OptionIndexes :
           SubmitVoteFetchPoll(p, id, idx)
    \/ \E q \in BagToSet(reqs) : SubmitVoteCheckExisting(q)
    \/ \E q \in BagToSet(reqs) : SubmitVoteInsert(q)
    \/ Return

Spec == Init /\ [][Next]_vars

\* -------------------------------------------------------- checkRateLimit
\* rateLimits.get(key) || { count: 0, resetTime: now + windowMs }
UserLimits(stored, t, windowMs) ==
    IF stored = NoEntry THEN [count |-> 0, resetTime |-> t + windowMs]
    ELSE stored

\* the window test with >= in place of >
ResetWindowAtResetTime(userLimits, t, windowMs) ==
    IF t >= userLimits.resetTime
    THEN [count |-> 0, resetTime |-> t + windowMs]
    ELSE userLimits

\* if (now > userLimits.resetTime) { reset the window }
ResetWindow(userLimits, t, windowMs) ==
    IF t > userLimits.resetTime
    THEN [count |-> 0, resetTime |-> t + windowMs]
    ELSE userLimits

\* the limit test with > in place of >=
RateDeniedOffByOne(userLimits, maxAttempts) == userLimits.count > maxAttempts

\* if (userLimits.count >= maxAttempts)
RateDenied(userLimits, maxAttempts) == userLimits.count >= maxAttempts

\* The object read from the Map is changed in place, so a window reset is
\* in the Map even when the call is then denied; an object made for a key
\* that was not in the Map is stored only when the call is allowed.
CheckRateLimit(userId, action, maxAttempts, windowMs) ==
    LET key == RateKey(userId, action)
        stored == rateLimits[key]
        userLimits == ResetWindow(UserLimits(stored, now, windowMs), now,
                                  windowMs)
        denied == RateDenied(userLimits, maxAttempts)
        counted == [userLimits EXCEPT !.count = @ + 1]
    IN  /\ rateLimits' =
               IF ~denied THEN [rateLimits EXCEPT ![key] = counted]
               ELSE IF stored = NoEntry THEN rateLimits
               ELSE [rateLimits EXCEPT ![key] = userLimits]
        /\ rateResult' =
               IF denied
               THEN [key |-> key, maxAttempts |-> maxAttempts,
                     windowMs |-> windowMs, at |-> now,
                     allowed |-> FALSE, remaining |-> 0,
                     resetTime |-> userLimits.resetTime]
               ELSE [key |-> key, maxAttempts |-> maxAttempts,
                     windowMs |-> windowMs, at |-> now,
                     allowed |-> TRUE,
                     remaining |-> maxAttempts - counted.count,
                     resetTime |-> counted.resetTime]
        /\ allowedLog' =
               IF denied THEN allowedLog
               ELSE [allowedLog EXCEPT
                         ![key] = @ (+) SetToBag({counted.resetTime})]
        /\ UNCHANGED <<now, appVars, mwVars, formVars>>

\* Date.now() moves on
Tick ==
    /\ now < MaxTime
    /\ now' = now + 1
    /\ UNCHANGED <<rateLimits, allowedLog, rateResult, appVars, mwVars,
                   formVars>>

NextRateLimit ==
    \/ \E u \in Users, a \in RateActions, m \in AttemptLimits,
          w \in WindowLengths : CheckRateLimit(u, a, m, w)
    \/ Tick

SpecRateLimit == Init /\ [][NextRateLimit]_vars

\* --------------------------------------------------------- updateSession
\* String.prototype.startsWith
StartsWith(s, prefix) ==
    Len(s) >= Len(prefix) /\ SubSeq(s, 1, Len(prefix)) = prefix

\* the auth pages without the /auth prefix
IsAuthPageNoAuthPrefix(pathname) ==
    \/ StartsWith(pathname, PathLogin)
    \/ StartsWith(pathname, PathRegister)

\* lines 35-37
IsAuthPage(pathname) ==
    \/ StartsWith(pathname, PathLogin)
    \/ StartsWith(pathname, PathRegister)
    \/ StartsWith(pathname, PathAuth)

\* line 39
IsAdminRoute(pathname) == StartsWith(pathname, PathAdmin)

\* supabase.auth.getUser() on the cookies of the request
GetUser(cookies) ==
    IF cookies.kind \in {"valid", "refresh"} THEN cookies.user ELSE None

\* a request comes in
Request(cookies, pathname) ==
    /\ mwRequest = NoRequest
    /\ mwRequest' = [cookies |-> cookies, pathname |-> pathname]
    /\ mwResponse' = NoResponse
    /\ UNCHANGED <<appVars, rateVars, formVars>>

\* lines 4-61; a refreshed session is written to supabaseResponse by setAll,
\* the redirect is a new response without it; the admin block (lines 52-58)
\* holds only comments
UpdateSession ==
    LET pathname == mwRequest.pathname
        user == GetUser(mwRequest.cookies)
        refreshed == mwRequest.cookies.kind = "refresh"
    IN  /\ mwRequest # NoRequest
        /\ mwResponse' =
               IF user = None /\ ~IsAuthPage(pathname)
               THEN [kind |-> "redirect", location |-> PathLogin,
                     setCookies |-> FALSE, user |-> user,
                     pathname |-> pathname]
               ELSE [kind |-> "next", location |-> <<>>,
                     setCookies |-> refreshed, user |-> user,
                     pathname |-> pathname]
        /\ mwRequest' = NoRequest
        /\ UNCHANGED <<appVars, rateVars, formVars>>

\* the browser follows a redirect with the cookies it has
FollowRedirect(cookies) ==
    /\ mwRequest = NoRequest
    /\ mwResponse.kind = "redirect"
    /\ GetUser(cookies) = mwResponse.user
    /\ mwRequest' = [cookies |-> cookies, pathname |-> mwResponse.location]
    /\ UNCHANGED <<mwResponse, appVars, rateVars, formVars>>

NextMiddleware ==
    \/ \E c \in Sessions, path \in Pathnames : Request(c, path)
    \/ UpdateSession
    \/ \E c \in Sessions : FollowRedirect(c)

SpecMiddleware == Init /\ [][NextMiddleware]_vars

\* ------------------------------------------------------ store unreachable
\* error.message of a store call that failed for a reason of its own, such
\* as a lost connection
StoreFaults == {"ConnectionError"}

\* if (error) return { error: error.message }
ErrorMessage(fault) == fault

\* createPoll whose insert fails (lines 131-142)
CreatePollStoreFails(p, payload, fault) ==
    /\ response = NoCall
    /\ UNCHANGED auxVars
    /\ CreatePollResult(p, payload[1], payload[2]) = "Ok"
    /\ UNCHANGED <<polls, nextId, votes, reqs>>
    /\ response' = [NoCall EXCEPT !.op = "createPoll", !.principal = p,
                       !.payload = payload, !.storeError = fault,
                       !.result = ErrorMessage(fault)]

\* updatePoll whose update fails (lines 527-539)
UpdatePollStoreFails(p, id, payload, fault) ==
    /\ response = NoCall
    /\ UNCHANGED auxVars
    /\ UpdatePollResult(polls, p, id, payload[1], payload[2]) = "Ok"
    /\ UNCHANGED <<polls, nextId, votes, reqs>>
    /\ response' = [NoCall EXCEPT !.op = "updatePoll", !.principal = p,
                       !.pollId = id, !.payload = payload,
                       !.owner = OwnerOf(polls, id), !.storeError = fault,
                       !.result = ErrorMessage(fault)]

\* deletePoll whose delete fails (lines 403-410)
DeletePollStoreFails(p, id, fault) ==
    /\ response = NoCall
    /\ UNCHANGED auxVars
    /\ p # None
    /\ UNCHANGED <<polls, nextId, votes, reqs>>
    /\ response' = [NoCall EXCEPT !.op = "deletePoll", !.principal = p,
                       !.pollId = id, !.owner = OwnerOf(polls, id),
                       !.storeError = fault, !.result = ErrorMessage(fault)]

\* getPollById whose select fails (lines 235-242)
GetPollByIdStoreFails(p, id, fault) ==
    /\ response = NoCall
    /\ UNCHANGED auxVars
    /\ UNCHANGED <<polls, nextId, votes, reqs>>
    /\ response' = [NoCall EXCEPT !.op = "getPollById", !.principal = p,
                       !.pollId = id, !.owner = OwnerOf(polls, id),
                       !.storeError = fault, !.result = ErrorMessage(fault)]

\* submitVote whose read of the poll fails (lines 303-310): every pollError
\* is reported as "Poll not found."
SubmitVoteFetchPollStoreFails(p, id, idx, fault) ==
    /\ response = NoCall
    /\ UNCHANGED auxVars
    /\ p # None
    /\ UNCHANGED <<polls, nextId, votes, reqs>>
    /\ response' = [NoCall EXCEPT !.op = "submitVote", !.principal = p,
                       !.pollId = id, !.optionIndex = idx,
                       !.owner = OwnerOf(polls, id), !.storeError = fault,
                       !.result = "PollNotFound"]

\* submitVote whose read of the existing vote fails (lines 320-330): the
\* error is not looked at, existingVote is null and the request goes on
SubmitVoteCheckExistingStoreFails(q, fault) ==
    /\ response = NoCall
    /\ UNCHANGED auxVars
    /\ q.pc = "checkVote"
    /\ reqs' = Move(q, [q EXCEPT !.pc = "insert"])
    /\ UNCHANGED <<polls, nextId, votes, response>>

\* submitVote whose insert fails (lines 333-342)
SubmitVoteInsertStoreFails(q, fault) ==
    /\ response = NoCall
    /\ UNCHANGED auxVars
    /\ q.pc = "insert"
    /\ reqs' = Move(q, [q EXCEPT !.pc = "done", !.storeError = fault,
                                 !.result = InsertResult(fault)])
    /\ UNCHANGED <<polls, nextId, votes, response>>

\* the server actions against a store that can be unreachable at any call
NextStoreFails ==
    \/ \E p \in Principals, pl \in Payloads : CreatePoll(p, pl)
    \/ \E p \in Principals, id \in IdInputs, idx \in OptionIndexes :
           SubmitVoteFetchPoll(p, id, idx)
    \/ \E q \in BagToSet(reqs) : SubmitVoteCheckExisting(q)
    \/ \E q \in BagToSet(reqs) : SubmitVoteInsert(q)
    \/ \E p \in Principals, pl \in Payloads, f \in StoreFaults :
           CreatePollStoreFails(p, pl, f)
    \/ \E p \in Principals, id \in IdInputs, pl \in Payloads,
          f \in StoreFaults : UpdatePollStoreFails(p, id, pl, f)
    \/ \E p \in Principals, id \in IdInputs, f \in StoreFaults :
           DeletePollStoreFails(p, id, f)
    \/ \E p \in Principals, id \in IdInputs, f \in StoreFaults :
           GetPollByIdStoreFails(p, id, f)
    \/ \E p \in Principals, id \in IdInputs, idx \in OptionIndexes,
          f \in StoreFaults : SubmitVoteFetchPollStoreFails(p, id, idx, f)
    \/ \E q \in BagToSet(reqs), f \in StoreFaults :
           SubmitVoteCheckExistingStoreFails(q, f)
    \/ \E q \in BagToSet(reqs), f \in StoreFaults :
           SubmitVoteInsertStoreFails(q, f)
    \/ Return

SpecStoreFails == Init /\ [][NextStoreFails]_vars

\* the inputs of these calls: a payload that is accepted and one that is
\* rejected, an option index that is valid and one that is not
LivePayloads == {<<Q1, <<OptA, OptB>>>>, <<Q1, <<OptA>>>>}
LiveIndexes == {0, 3}

\* polls created and deleted while votes are submitted; every call that is
\* under way gets the answer of the store (and the caller its result) in
\* the end
NextLive ==
    \/ \E p \in Principals, pl \in LivePayloads : CreatePoll(p, pl)
    \/ \E p \in Principals, id \in IdInputs : DeletePoll(p, id)
    \/ \E p \in Principals, id \in IdInputs, idx \in LiveIndexes :
           SubmitVoteFetchPoll(p, id, idx)
    \/ \E q \in BagToSet(reqs) : SubmitVoteCheckExisting(q)
    \/ \E q \in BagToSet(reqs) : SubmitVoteInsert(q)
    \/ Return

SpecLive ==
    /\ Init /\ [][NextLive]_vars
    /\ WF_vars(Return)
    /\ SF_vars(\E q \in BagToSet(reqs) : SubmitVoteCheckExisting(q))
    /\ SF_vars(\E q \in BagToSet(reqs) : SubmitVoteInsert(q))

\* polls created, updated, deleted and listed, with created_at that can tie
NextList ==
    \/ \E p \in Principals, pl \in Payloads : CreatePollTimed(p, pl)
    \/ \E p \in Principals, id \in IdInputs, pl \in Payloads :
           UpdatePoll(p, id, pl)
    \/ \E p \in Principals, id \in IdInputs : DeletePoll(p, id)
    \/ \E p \in Principals : GetUserPolls(p)
    \/ Return

SpecList == Init /\ [][NextList]_vars

\* polls of two and of three options
UpdatePayloads == {<<Q1, <<OptA, OptB>>>>, <<Q2Padded, <<OptA, OptB, OptC>>>>}
\* an option index every poll has, and one only a poll of three options has
UpdateIndexes == {0, 2}
\* the users who vote
UpdateVoters == {"u2"}

\* updatePoll among several polls that have votes
NextUpdate ==
    \/ \E p \in Users, pl \in UpdatePayloads :
           CreatePollAt(p, pl, MaxListed, nextId)
    \/ \E p \in Principals, id \in IdInputs, pl \in UpdatePayloads :
           UpdatePoll(p, id, pl)
    \/ \E p \in UpdateVoters, id \in PollIds, idx \in UpdateIndexes :
           SubmitVoteFetchPoll(p, id, idx)
    \/ \E q \in BagToSet(reqs) : SubmitVoteCheckExisting(q)
    \/ \E q \in BagToSet(reqs) : SubmitVoteInsert(q)
    \/ Return

SpecUpdate == Init /\ [][NextUpdate]_vars

\* createPoll, updatePoll and getPollById on the payloads at the edges of
\* the validation rules
NextValidate ==
    \/ \E p \in Principals, pl \in ValidationPayloads : CreatePoll(p, pl)
    \/ \E p \in Principals, id \in IdInputs, pl \in ValidationPayloads :
           UpdatePoll(p, id, pl)
    \/ \E p \in Principals, id \in IdInputs : GetPollById(p, id)
    \/ Return

SpecValidate == Init /\ [][NextValidate]_vars

\* -------------------------------------------------------- PollCreateForm
\* what an option field can hold
FieldTexts == {"", "x"}
\* the fields that are typed into
ChangedFields == {0, 1}

\* opts.filter((_, i) => i !== idx), idx counted from 0
FilterIndex(opts, idx) ==
    IF idx + 1 > Len(opts) THEN opts
    ELSE SubSeq(opts, 1, idx) \o SubSeq(opts, idx + 2, Len(opts))

\* line 99: opts.map((opt, i) => (i === idx ? value : opt))
MapIndex(opts, idx, value) ==
    [i \in 1..Len(opts) |-> IF i = idx + 1 THEN value ELSE opts[i]]

\* lines 98-100, from the input of field idx of the last render (line 173)
HandleOptionChange(idx, value) ==
    /\ unrendered < MaxUnrendered
    /\ idx + 1 <= Len(rendered)
    /\ formOptions' = MapIndex(formOptions, idx, value)
    /\ formOptions' # formOptions
    /\ unrendered' = unrendered + 1
    /\ UNCHANGED <<rendered, appVars, rateVars, mwVars>>

\* line 108, from the button of the last render, which is disabled when
\* that render saw options.length >= 10 (line 196)
AddOption ==
    /\ unrendered < MaxUnrendered
    /\ ~(Len(rendered) >= FormMaxOptions)
    /\ formOptions' = Append(formOptions, "")
    /\ unrendered' = unrendered + 1
    /\ UNCHANGED <<rendered, appVars, rateVars, mwVars>>

\* lines 118-123, from the button of field idx of the last render, which
\* is there when that render saw options.length > 2 (line 178); the test
\* of line 120 reads the options of that render, the updater the queued
\* state
RemoveOption(idx) ==
    /\ unrendered < MaxUnrendered
    /\ Len(rendered) > FormMinOptions
    /\ idx + 1 <= Len(rendered)
    /\ formOptions' = IF Len(rendered) > FormMinOptions
                      THEN FilterIndex(formOptions, idx)
                      ELSE formOptions
    /\ unrendered' = unrendered + 1
    /\ UNCHANGED <<rendered, appVars, rateVars, mwVars>>

\* the component is rendered again with the state the queued updates give
Render ==
    /\ unrendered > 0
    /\ rendered' = formOptions
    /\ unrendered' = 0
    /\ UNCHANGED <<formOptions, appVars, rateVars, mwVars>>

NextForm ==
    \/ \E idx \in ChangedFields, value \in FieldTexts :
           HandleOptionChange(idx, value)
    \/ AddOption
    \/ \E idx \in 0..(FormMaxOptions + MaxUnrendered) : RemoveOption(idx)
    \/ Render

SpecForm == Init /\ [][NextForm]_vars

\* ---------------------------------------------------------------- claims
\* C1: in every reachable state the votes table holds at most one row for
\* each (poll_id, voter_id) pair, whatever submitVote calls have run and
\* however their steps interleaved.
C1_AtMostOneVotePerPair ==
    \A id \in PollIds, u \in Users : VoteCount(votes, id, u) <= 1

\* two requests of one voter raced past the existing-vote read; the store
\* took the first insert and rejected the second
C1_Witness ==
    \E q \in BagToSet(reqs) :
        /\ q.pc = "done" /\ q.storeError = "DuplicateKey"
        /\ VoteCount(votes, q.pollId, q.user) = 1

\* C2: when all submitVote calls an authenticated voter issued for one
\* existing poll with a valid option index have returned, exactly one of
\* them succeeded and every other one returned AlreadyVoted.
C2_ExactlyOneSuccess ==
    \A id \in PollIds, u \in Users :
        LET done == ReqsAt("done", id, u)
        IN  (/\ PollExists(id)
             /\ done # {}
             /\ ReqsAt("checkVote", id, u) = {}
             /\ ReqsAt("insert", id, u) = {})
            => /\ CountReqs({q \in done : q.result = "Ok"}) = 1
               /\ \A q \in done : q.result \in {"Ok", "AlreadyVoted"}

\* C3: no reachable state has two submitVote requests of one voter on one
\* poll that have both read "no existing vote" and have not yet inserted.
C3_NoTwoPastCheck ==
    \A id \in PollIds, u \in Users : CountReqs(ReqsAt("insert", id, u)) <= 1

\* C4: a submitVote whose insert the store rejected because a vote of the
\* same (poll_id, voter_id) exists returns AlreadyVoted.
C4_DuplicateIsAlreadyVoted ==
    \A q \in BagToSet(reqs) :
        (q.pc = "done" /\ q.storeError = "DuplicateKey")
            => q.result = "AlreadyVoted"

\* C5: an updatePoll or deletePoll call by a principal other than the
\* poll's owner changes neither the poll nor its votes.
C5_NonOwnerNeverMutates ==
    (/\ response.op \in {"updatePoll", "deletePoll"}
     /\ response.owner # None
     /\ response.principal # response.owner)
        => ~response.mutated

\* a non-owner's updatePoll with a valid payload went through the store
C5_Witness ==
    /\ response.op = "updatePoll"
    /\ response.result = "Ok"
    /\ response.owner \in Users
    /\ response.principal \in Users \ {response.owner}

\* C6: updatePoll (with a valid payload) and deletePoll on an existing poll
\* return Forbidden when the caller is not the owner, and succeed when the
\* caller is the owner.
C6_NonOwnerForbidden ==
    (/\ response.op \in {"updatePoll", "deletePoll"}
     /\ response.principal \in Users
     /\ response.owner \in Users
     /\ response.op = "updatePoll" =>
            UpdateValidate(response.payload[1],
                           FilterBoolean(response.payload[2])) = "Ok")
        => response.result = IF response.principal = response.owner
                             THEN "Ok" ELSE "Forbidden"

\* C7: for an authenticated caller and a well-formed id, updatePoll and
\* deletePoll return on a poll owned by someone else exactly what they
\* return when there is no poll of that id.
C7_OtherOwnedLikeAbsent ==
    \A p \in Users, id \in PollIds :
        (PollExists(id) /\ polls[id].user_id # p) =>
            LET absent == [polls EXCEPT ![id] = NoPoll]
            IN  /\ DeletePollResult(polls, p, id) =
                       DeletePollResult(absent, p, id)
                /\ \A pl \in Payloads :
                       UpdatePollResult(polls, p, id, pl[1], pl[2]) =
                           UpdatePollResult(absent, p, id, pl[1], pl[2])

\* a deletePoll by an authenticated caller on someone else's poll returned
C7_Witness ==
    /\ response.op = "deletePoll"
    /\ response.owner \in Users
    /\ response.principal \in Users \ {response.owner}
    /\ PollExists(response.pollId)

\* the checks createPoll and updatePoll run before they ask for the user
PreAuthVerdict(call) ==
    LET v == IF call.op = "createPoll"
             THEN CreateValidate(call.payload[1],
                                 FilterBoolean(call.payload[2]))
             ELSE UpdateValidate(call.payload[1],
                                 FilterBoolean(call.payload[2]))
    IN  IF v # "Ok" THEN v
        ELSE IF call.op = "updatePoll" /\ ~UuidRegexTest(call.pollId)
        THEN "MalformedId"
        ELSE "Ok"

\* the operations that write
MutatingOps == {"createPoll", "updatePoll", "deletePoll", "submitVote"}

\* C8 as stated: every createPoll, updatePoll, deletePoll and submitVote
\* call without a principal returns Unauthenticated and changes no record.
C8_AnonymousIsUnauthenticated ==
    (response.op \in MutatingOps /\ response.principal = None)
        => (response.result = "Unauthenticated" /\ ~response.mutated)

\* C8 amended: a call without a principal never succeeds and changes no
\* record; deletePoll and submitVote return Unauthenticated, createPoll and
\* updatePoll return Unauthenticated unless their payload (or updatePoll's
\* poll id) is invalid, and then they return that validation error.
C8_NoAnonymousMutation ==
    (response.op \in MutatingOps /\ response.principal = None)
        => /\ ~response.mutated
           /\ response.result # "Ok"
           /\ response.op \in {"deletePoll", "submitVote"}
                  => response.result = "Unauthenticated"
           /\ response.op \in {"createPoll", "updatePoll"}
                  => response.result =
                         IF PreAuthVerdict(response) = "Ok"
                         THEN "Unauthenticated"
                         ELSE PreAuthVerdict(response)

\* a createPoll without a principal and with a valid payload returned
C8_Witness ==
    /\ response.op = "createPoll"
    /\ response.principal = None
    /\ response.result = "Unauthenticated"

\* C9: a submitVote by an authenticated voter on an existing poll with an
\* optionIndex outside [0, len(options)) returns InvalidOptionIndex and
\* changes no record, and no request gets past the index check with an
\* index outside the options it read.
C9_InvalidIndexRejected ==
    /\ (/\ response.op = "submitVote"
        /\ response.principal \in Users
        /\ PollExists(response.pollId)
        /\ \/ response.optionIndex < 0
           \/ response.optionIndex >= Len(polls[response.pollId].options))
           => (response.result = "InvalidOptionIndex" /\ ~response.mutated)
    /\ \A q \in BagToSet(reqs) :
           0 <= q.optionIndex /\ q.optionIndex < q.optionCount

\* a submitVote with an index just past the last option was rejected
C9_Witness ==
    /\ response.op = "submitVote"
    /\ response.result = "InvalidOptionIndex"
    /\ PollExists(response.pollId)
    /\ response.optionIndex = Len(polls[response.pollId].options)

\* C10: every vote row, at the step that inserts it, has an option_index
\* inside the options its poll has at that step.
C10_IndexValidAtInsert ==
    [][\A v \in DOMAIN votes' :
           v \notin DOMAIN votes =>
               /\ 0 <= v.option_index
               /\ v.option_index < Len(polls'[v.poll_id].options)]_vars

\* the results with which a read reports that there is no such poll
NotFoundResults == {"PollNotFound", "NoRows"}

\* C11: when deletePoll has returned success for a poll id, no vote row with
\* that poll_id remains and getPollById on that id fails as not found.
C11_DeleteRemovesPollAndVotes ==
    (/\ response.op = "deletePoll"
     /\ response.result = "Ok"
     /\ response.pollId \in PollIds)
        => /\ \A v \in BagToSet(votes) : v.poll_id # response.pollId
           /\ GetPollResult(polls, response.pollId) \in NotFoundResults
           /\ GetPollData(polls, response.pollId) = NoPoll

\* C12: after a successful createPoll, getPollById on the new poll returns the
\* trimmed input question, the trimmed input options in the same order and
\* number, and the caller as owner.
C12_RoundTrip ==
    (response.op = "createPoll" /\ response.result = "Ok")
        => /\ GetPollResult(polls, response.pollId) = "Ok"
           /\ LET got == GetPollData(polls, response.pollId)
              IN  /\ got.question = Trim(response.payload[1])
                  /\ got.options = MapTrim(response.payload[2])
                  /\ got.user_id = response.principal

\* the ids of a returned list
ListIds(list) == {list[i] : i \in 1..Len(list)}

\* C13: getUserPolls of an authenticated user returns exactly the polls whose
\* owner is that user, each once.
C13_ListExactlyOwn ==
    (response.op = "getUserPolls" /\ response.principal \in Users)
        => /\ ListIds(response.list) =
                  {id \in PollIds : PollExists(id)
                                    /\ polls[id].user_id = response.principal}
           /\ Len(response.list) = Cardinality(ListIds(response.list))

\* a user listed their polls while a poll of another user existed
C13_Witness ==
    /\ response.op = "getUserPolls"
    /\ response.principal \in Users
    /\ \E id \in PollIds :
           PollExists(id) /\ polls[id].user_id # response.principal

\* C14: a poll row is inserted with the creating caller as owner, and no
\* step changes the owner of a poll that stays in the table.
C14_OwnerNeverChanges ==
    [][\A id \in PollIds :
           polls'[id] # NoPoll =>
               IF polls[id] = NoPoll
               THEN /\ response'.op = "createPoll"
                    /\ polls'[id].user_id = response'.principal
               ELSE polls'[id].user_id = polls[id].user_id]_vars

\* the owner's updatePoll has replaced question and options of a poll
C14_Witness ==
    /\ response.op = "updatePoll"
    /\ response.mutated
    /\ PollExists(response.pollId)
    /\ polls[response.pollId].user_id = response.principal

\* C15: getPollById, updatePoll (valid payload), deletePoll and submitVote
\* called by an authenticated user with an id that is not a UUID return
\* MalformedId.
C15_MalformedIdRejected ==
    (/\ response.op \in {"getPollById", "updatePoll", "deletePoll",
                         "submitVote"}
     /\ response.pollId = BadId
     /\ response.principal \in Users
     /\ response.op = "updatePoll" =>
            UpdateValidate(response.payload[1],
                           FilterBoolean(response.payload[2])) = "Ok")
        => response.result = "MalformedId"

\* some option of the list is longer than MaxOptionLen after trimming
SomeOptionTooLongTrimmed(options) ==
    \E i \in 1..Len(options) : StrLen(Trim(options[i])) > MaxOptionLen

\* some option of the list is empty after trimming
SomeOptionEmptyTrimmed(options) ==
    \E i \in 1..Len(options) : StrLen(Trim(options[i])) = 0

\* the options of the list that are not empty after trimming
NonEmptyTrimmed(options) ==
    SelectSeq(options, LAMBDA o : StrLen(Trim(o)) > 0)

\* C16: createPoll and updatePoll return QuestionTooLong exactly when the
\* trimmed question is longer than 500, and OptionTooLong only when some
\* option is longer than 200 after trimming.
C16_LengthOnTrimmedText ==
    response.op \in {"createPoll", "updatePoll"}
        => /\ response.result = "QuestionTooLong"
                  <=> StrLen(Trim(response.payload[1])) > MaxQuestionLen
           /\ response.result = "OptionTooLong"
                  => SomeOptionTooLongTrimmed(response.payload[2])

\* the question of the call is not blank and not longer than 500, even
\* untrimmed
QuestionAccepted(call) ==
    /\ StrLen(Trim(call.payload[1])) > 0
    /\ StrLen(call.payload[1]) <= MaxQuestionLen

\* C17: with an acceptable question, createPoll and updatePoll return
\* TooFewOptions for fewer than 2 supplied options and TooManyOptions for
\* more than 10, storing nothing, and an authenticated caller's payload of
\* exactly 2 or exactly 10 options, none empty and none longer than 200 even
\* untrimmed, is accepted.
C17_OptionCountBounds ==
    (response.op \in {"createPoll", "updatePoll"} /\ QuestionAccepted(response))
        => LET options == response.payload[2]
           IN  /\ Len(options) < MinOptions
                      => (response.result = "TooFewOptions"
                          /\ ~response.mutated)
               /\ Len(options) > MaxOptions
                      => (response.result = "TooManyOptions"
                          /\ ~response.mutated)
               /\ (/\ Len(options) \in {MinOptions, MaxOptions}
                   /\ ~SomeOptionEmptyTrimmed(options)
                   /\ \A i \in 1..Len(options) :
                          StrLen(options[i]) <= MaxOptionLen
                   /\ response.principal \in Users
                   /\ response.op = "updatePoll" => response.pollId # BadId)
                      => response.result = "Ok"

\* C18: createPoll and updatePoll return EmptyQuestion for an empty or
\* whitespace-only question, and EmptyOption for a payload with an acceptable
\* question and 2 to 10 options of which one is empty after trimming (and at
\* least 2 are not).
C18_EmptyRejected ==
    response.op \in {"createPoll", "updatePoll"}
        => LET options == response.payload[2]
           IN  /\ StrLen(Trim(response.payload[1])) = 0
                      => response.result = "EmptyQuestion"
               /\ (/\ QuestionAccepted(response)
                   /\ Len(options) <= MaxOptions
                   /\ Len(NonEmptyTrimmed(options)) >= MinOptions
                   /\ SomeOptionEmptyTrimmed(options)
                   /\ ~SomeOptionTooLongTrimmed(options))
                      => response.result = "EmptyOption"

\* C19: submitVote returns the first failing check in the order
\* Unauthenticated, PollNotFound, InvalidOptionIndex, AlreadyVoted.
C19_FirstFailingCheck ==
    /\ response.op = "submitVote"
           => response.result =
                  IF response.principal = None THEN "Unauthenticated"
                  ELSE IF ~PollExists(response.pollId) THEN "PollNotFound"
                  ELSE IF \/ response.optionIndex < 0
                          \/ response.optionIndex >=
                                 Len(polls[response.pollId].options)
                       THEN "InvalidOptionIndex"
                  ELSE "Ok"
    /\ \A q \in BagToSet(reqs) :
           q.result = "AlreadyVoted"
               => /\ q.user \in Users
                  /\ q.pollId \in PollIds
                  /\ 0 <= q.optionIndex /\ q.optionIndex < q.optionCount

\* a voter who has a vote on the poll asked for an index out of range and
\* was told InvalidOptionIndex
C19_Witness ==
    /\ response.op = "submitVote"
    /\ response.result = "InvalidOptionIndex"
    /\ VotesOf(votes, response.pollId, response.principal) # {}

\* C20 as stated: createPoll and updatePoll without a principal return
\* Unauthenticated whatever the payload.
C20_PrincipalCheckedFirst ==
    (response.op \in {"createPoll", "updatePoll"}
     /\ response.principal = None)
        => response.result = "Unauthenticated"

\* C20 amended: createPoll and updatePoll validate the payload (and
\* updatePoll the id format) before they ask for the principal: an invalid
\* payload or id gets its validation error whoever calls, and a call without
\* a principal returns Unauthenticated exactly when payload and id are valid.
C20_ValidationBeforePrincipal ==
    response.op \in {"createPoll", "updatePoll"}
        => /\ PreAuthVerdict(response) # "Ok"
                  => response.result = PreAuthVerdict(response)
           /\ response.principal = None
                  => (response.result = "Unauthenticated"
                          <=> PreAuthVerdict(response) = "Ok")

\* an updatePoll without a principal and with a blank question returned the
\* validation error
C20_Witness ==
    /\ response.op = "updatePoll"
    /\ response.principal = None
    /\ response.result = "EmptyQuestion"

\* gen_random_uuid() never hands an id out twice: an id handed out whose row
\* is gone is the id of a deleted poll
Deleted(ps, next, id) == id \in PollIds /\ id < next /\ ps[id] = NoPoll

\* C21: once a poll has been deleted its id stays deleted, and no later
\* updatePoll, deletePoll or submitVote on that id succeeds: no such call
\* returns success and no vote row of that poll is inserted.
C21_DeletedIsFinal ==
    [][\A id \in PollIds :
           Deleted(polls, nextId, id) =>
               /\ Deleted(polls', nextId', id)
               /\ \A v \in DOMAIN votes' : v.poll_id # id
               /\ \A q \in BagToSet(reqs') :
                      (q.pollId = id /\ q.result = "Ok")
                          => (q \in BagToSet(reqs) /\ reqs'[q] = reqs[q])
               /\ (/\ response' # response
                   /\ response'.op \in {"updatePoll", "deletePoll",
                                        "submitVote"}
                   /\ response'.pollId = id)
                      => response'.result # "Ok"]_vars

\* C22: a vote row never changes: at every step each row of the votes table
\* is still the one row of its (poll_id, user_id) with the same option_index,
\* or the step is the deletePoll that deleted its poll and took all the
\* poll's votes with it.
C22_VoteImmutable ==
    [][\A v \in BagToSet(votes) :
           \/ /\ VotesOf(votes', v.poll_id, v.user_id) = {v}
              /\ votes'[v] = votes[v]
           \/ /\ response'.op = "deletePoll"
              /\ response'.pollId = v.poll_id
              /\ polls[v.poll_id] # NoPoll
              /\ polls'[v.poll_id] = NoPoll
              /\ \A w \in BagToSet(votes') : w.poll_id # v.poll_id]_vars

\* a voter's vote was recorded, a second request of the same voter was
\* turned down by the store, and then the owner deleted the poll
C22_Witness ==
    /\ response.op = "deletePoll"
    /\ response.mutated
    /\ votes = EmptyBag
    /\ \E q1, q2 \in BagToSet(reqs) :
           /\ q1.pollId = response.pollId /\ q1.result = "Ok"
           /\ q2.pollId = q1.pollId /\ q2.user = q1.user
           /\ q2.storeError = "DuplicateKey"
           /\ q2.optionIndex # q1.optionIndex

\* C23: getPollById checks neither ownership nor authentication: every call
\* on the id of an existing poll returns that poll, and the owner, every
\* other user and a caller without a principal get the same result.
C23_ReadIgnoresPrincipal ==
    /\ (response.op = "getPollById" /\ PollExists(response.pollId))
           => /\ response.result = "Ok"
              /\ response.poll = polls[response.pollId]
    /\ \A id \in PollIds, p1, p2 \in Principals :
           PollExists(id) =>
               /\ GetPollResult(VisiblePolls(polls, p1), id) =
                      GetPollResult(VisiblePolls(polls, p2), id)
               /\ GetPollData(VisiblePolls(polls, p1), id) =
                      GetPollData(VisiblePolls(polls, p2), id)

\* a caller without a principal read an existing poll
C23_Witness ==
    /\ response.op = "getPollById"
    /\ response.principal = None
    /\ response.owner \in Users
    /\ response.poll # NoPoll

\* the one failure value that tells nothing about the store
GenericFailure == "GenericFailure"

\* C24: when a store call of createPoll, updatePoll, deletePoll, getPollById
\* or submitVote fails for a reason outside the error taxonomy, the call
\* returns the generic failure value and nothing of the store's message.
C24_GenericStoreFailure ==
    /\ response.storeError \in StoreFaults
           => response.result = GenericFailure
    /\ \A q \in BagToSet(reqs) :
           q.storeError \in StoreFaults => q.result = GenericFailure

\* the createPoll call that returns at this step, if it succeeded, inserted
\* a row under an id that no poll has and no poll ever had
CreatedUnderFreshId ==
    (/\ response' # response
     /\ response'.op = "createPoll"
     /\ response'.result = "Ok")
        => /\ response'.pollId \in PollIds
           /\ polls[response'.pollId] = NoPoll
           /\ ~Deleted(polls, nextId, response'.pollId)
           /\ polls'[response'.pollId] # NoPoll
           /\ \A id \in PollIds \ {response'.pollId} : polls'[id] = polls[id]

AllowedInWindow(key, r) == CopiesIn(r, allowedLog[key])

\* C26: a call of checkRateLimit is allowed only as one of the first
\* maxAttempts allowed calls of its key's window, so once maxAttempts calls
\* were allowed every further call before the window's resetTime has passed
\* is denied, and a denied call returns remaining = 0.
C26_AtMostMaxAttempts ==
    rateResult # NoRateResult =>
        /\ rateResult.allowed
               => /\ AllowedInWindow(rateResult.key, rateResult.resetTime)
                         <= rateResult.maxAttempts
                  /\ rateResult.remaining >= 0
        /\ ~rateResult.allowed
               => /\ rateResult.remaining = 0
                  /\ rateResult.at <= rateResult.resetTime

\* in the second window of a key, a call was denied after maxAttempts calls
\* had been allowed
C26_Witness ==
    /\ rateResult # NoRateResult
    /\ ~rateResult.allowed
    /\ AllowedInWindow(rateResult.key, rateResult.resetTime) =
           rateResult.maxAttempts
    /\ \E r \in BagToSet(allowedLog[rateResult.key]) :
           r < rateResult.resetTime

\* the pathnames that start with /login, /register or /auth
AuthPathnames == {PathLogin, PathLoginSub, PathLoginLonger, PathRegister,
                  PathAuth, PathAuthCallback}

C28_SameValidation ==
    /\ (/\ response.op = "updatePoll"
        /\ response.principal \in Users
        /\ response.owner = response.principal)
           => response.result =
                  CreatePollResult(response.principal, response.payload[1],
                                   response.payload[2])
    /\ (response.op = "createPoll" /\ response.principal \in Users)
           => \A id \in PollIds :
                  (PollExists(id) /\ polls[id].user_id = response.principal)
                      => UpdatePollResult(polls, response.principal, id,
                                          response.payload[1],
                                          response.payload[2]) =
                             response.result

\* the owner's updatePoll with a blank question and a single option was
\* rejected the way createPoll rejects it
C28_Witness ==
    /\ response.op = "updatePoll"
    /\ response.principal \in Users
    /\ response.owner = response.principal
    /\ response.payload = <<QBlank, <<OptA>>>>
    /\ response.result = "EmptyQuestion"

\* C29 as stated: updatePoll called by an authenticated user with a malformed
\* poll id and an invalid payload returns MalformedId, not a payload error.
C29_IdBeforePayload ==
    (/\ response.op = "updatePoll"
     /\ response.principal \in Users
     /\ response.pollId = BadId
     /\ UpdateValidate(response.payload[1],
                       FilterBoolean(response.payload[2])) # "Ok")
        => response.result = "MalformedId"

\* C29 amended: updatePoll checks in the order payload, poll id, principal:
\* an invalid payload gets its validation error whatever the id and the
\* caller, a malformed id with a valid payload gets MalformedId whoever
\* calls, and Unauthenticated is returned only when payload and id are fine.
C29_PayloadThenIdThenPrincipal ==
    response.op = "updatePoll"
        => LET v == UpdateValidate(response.payload[1],
                                   FilterBoolean(response.payload[2]))
           IN  response.result =
                   IF v # "Ok" THEN v
                   ELSE IF response.pollId = BadId THEN "MalformedId"
                   ELSE IF response.principal = None THEN "Unauthenticated"
                   ELSE "Ok"

\* an authenticated user's updatePoll with a malformed id and a single
\* option returned the payload error
C29_Witness ==
    /\ response.op = "updatePoll"
    /\ response.principal \in Users
    /\ response.pollId = BadId
    /\ response.result = "TooFewOptions"

\* C30: getUserPolls returns the caller's polls newest first: of any two
\* returned polls, the one with the later created_at comes earlier.
C30_NewestFirst ==
    response.op = "getUserPolls"
        => \A i, j \in 1..Len(response.list) :
               polls[response.list[i]].created_at >
                   polls[response.list[j]].created_at
                       => i < j

\* a user listed two polls created at different times, the older of which
\* was updated after the newer one was created
C30_Witness ==
    /\ response.op = "getUserPolls"
    /\ Len(response.list) = 2
    /\ polls[response.list[1]].created_at >
           polls[response.list[2]].created_at
    /\ response.list[1] > response.list[2]
    /\ polls[response.list[2]].question # polls[response.list[1]].question

\* the row holds the sanitized question and options of this one payload
HoldsPayload(row, payload) ==
    /\ row.question = Trim(payload[1])
    /\ row.options = MapTrim(FilterBoolean(payload[2]))

\* C31: whatever createPoll and updatePoll calls have run in whatever order,
\* the (question, options) of a poll is the pair of one single call, and
\* right after an updatePoll that wrote it is the pair of that call.
C31_UpdateReplacesBoth ==
    /\ \A id \in PollIds :
           PollExists(id) => \E pl \in Payloads : HoldsPayload(polls[id], pl)
    /\ (response.op = "updatePoll" /\ response.mutated)
           => HoldsPayload(polls[response.pollId], response.payload)

\* the owner's updatePoll replaced a poll of three options by a question
\* with two options
C31_Witness ==
    /\ response.op = "updatePoll"
    /\ response.mutated
    /\ response.principal = response.owner
    /\ Len(polls[response.pollId].options) = 2
    /\ HoldsPayload(polls[response.pollId], response.payload)

\* C33: a call of checkRateLimit on a key that has a window starts a new
\* window only when the time of the call is strictly greater than the
\* key's resetTime: that call sets the count to 0 and resetTime to
\* now + windowMs and is allowed with remaining = maxAttempts - 1; a call
\* at resetTime or before it keeps the window's resetTime and is counted
\* in it.
C33_NewWindowOnlyAfterResetTime ==
    [][(now' = now /\ rateResult' # NoRateResult
            /\ rateLimits[rateResult'.key] # NoEntry) =>
        LET res == rateResult'
            old == rateLimits[res.key]
            new == rateLimits'[res.key]
        IN  IF res.at > old.resetTime
            THEN /\ new = [count |-> 1, resetTime |-> res.at + res.windowMs]
                 /\ res.allowed
                 /\ res.remaining = res.maxAttempts - 1
                 /\ res.resetTime = res.at + res.windowMs
            ELSE /\ new.resetTime = old.resetTime
                 /\ res.resetTime = old.resetTime
                 /\ res.allowed = (old.count < res.maxAttempts)
                 /\ new.count = IF res.allowed THEN old.count + 1
                                ELSE old.count]_vars

\* a key is in its second window, and a call at exactly that window's
\* resetTime was denied: it was counted in the window that was full
C33_Witness ==
    /\ rateResult # NoRateResult
    /\ ~rateResult.allowed
    /\ rateResult.at = rateResult.resetTime
    /\ \E r \in BagToSet(allowedLog[rateResult.key]) :
           r # rateResult.resetTime
    /\ rateResult.resetTime \in BagToSet(allowedLog[rateResult.key])

\* the users whose row in profiles has role = 'admin'
AdminUsers == {"u2"}

\* C34: updateSession does not let a request of an authenticated user who
\* does not have the admin role through to a path that starts with /admin.
C34_AdminRouteNeedsAdminRole ==
    (/\ mwResponse # NoResponse
     /\ IsAdminRoute(mwResponse.pathname)
     /\ mwResponse.user \in Users \ AdminUsers)
        => mwResponse.kind # "next"

\* C35: the number of option fields of PollCreateForm stays between 2 and
\* 10 after any sequence of addOption and removeOption events, also when
\* several of them are handled before the component is rendered again.
C35_OptionCountInRange ==
    /\ Len(formOptions) >= FormMinOptions
    /\ Len(formOptions) <= FormMaxOptions

\* C36: in every state every vote's poll_id is the id of a poll that
\* exists, also when deletePoll runs between a submitVote request's read
\* of the poll and its insert: that insert fails and records no vote.
C36_VotesReferToPolls ==
    /\ \A v \in BagToSet(votes) : PollExists(v.poll_id)
    /\ \A q \in BagToSet(reqs) :
           (q.pc = "done" /\ ~PollExists(q.pollId))
               => VotesOf(votes, q.pollId, q.user) = {}

\* a request read its poll, the poll was deleted, and the request's insert
\* was refused by the foreign key
C36_Witness ==
    \E q \in BagToSet(reqs) :
        /\ q.pc = "done"
        /\ q.storeError = "ForeignKeyViolation"
        /\ ~PollExists(q.pollId)
        /\ votes = EmptyBag

\* C37: a vote row is written only by the insert of a submitVote request
\* and carries the id of that request's principal as user_id; a poll row
\* is created only by a createPoll call and carries the id of that call's
\* principal as user_id. No request writes a record attributed to another
\* principal.
C37_RecordsCarryThePrincipal ==
    [][/\ \A v \in BagToSet(votes') :
              CopiesIn(v, votes') > CopiesIn(v, votes) =>
                  \E q \in BagToSet(reqs) :
                      /\ q.pc = "insert"
                      /\ CopiesIn(q, reqs') < CopiesIn(q, reqs)
                      /\ q.user \in Users
                      /\ v.user_id = q.user
                      /\ v.poll_id = q.pollId
       /\ \A id \in PollIds :
              (polls[id] = NoPoll /\ polls'[id] # NoPoll) =>
                  /\ response'.op = "createPoll"
                  /\ response'.principal \in Users
                  /\ polls'[id].user_id = response'.principal]_vars

\* u2 has created a poll and u1's vote on it is recorded: the poll is
\* u2's and the vote is u1's
C37_Witness ==
    \E v \in BagToSet(votes), q \in BagToSet(reqs) :
        /\ PollExists(v.poll_id)
        /\ polls[v.poll_id].user_id = "u2"
        /\ v.user_id = "u1"
        /\ q.pc = "done" /\ q.result = "Ok"
        /\ q.user = v.user_id /\ q.pollId = v.poll_id

\* C38: a createPoll, updatePoll, deletePoll or submitVote call that
\* returns an error leaves the poll rows and the vote rows as they were,
\* and getPollById and getUserPolls never change them: the rows change
\* only in the step of a createPoll, updatePoll or deletePoll call that
\* returns success, or in the insert of a submitVote request that returns
\* success.
C38_ErrorsChangeNothing ==
    [][(polls' # polls \/ votes' # votes) =>
        \/ /\ response = NoCall /\ response' # NoCall
           /\ response'.op \in {"createPoll", "updatePoll", "deletePoll"}
           /\ response'.result = "Ok"
        \/ \E q \in BagToSet(reqs') :
               /\ q.pc = "done" /\ q.result = "Ok"
               /\ CopiesIn(q, reqs') > CopiesIn(q, reqs)]_vars

\* with a poll and a vote in the store, a deletePoll call is returning an
\* error and a submitVote request has returned one
C38_Witness ==
    /\ response.op = "deletePoll"
    /\ response.result # "Ok"
    /\ PollExists(response.pollId)
    /\ VotesOf(votes, response.pollId, "u1") # {}
    /\ \E q \in BagToSet(reqs) : q.pc = "done" /\ q.result # "Ok"

\* C39: an updatePoll call that returns success changes nothing but the
\* question and the options of the poll it names: that poll's owner and
\* created_at, every other poll, the ids and all votes stay as they were.
C39_UpdateChangesOnlyItsPoll ==
    [][(/\ response = NoCall /\ response' # NoCall
        /\ response'.op = "updatePoll" /\ response'.result = "Ok") =>
          /\ votes' = votes
          /\ nextId' = nextId
          /\ \A id \in PollIds :
                 IF id = response'.pollId
                 THEN /\ PollExists(id)' = PollExists(id)
                      /\ polls'[id].user_id = polls[id].user_id
                      /\ polls'[id].created_at = polls[id].created_at
                 ELSE polls'[id] = polls[id]]_vars

\* the owner's updatePoll has changed one of two polls, both of which
\* have a vote
C39_Witness ==
    /\ response.op = "updatePoll" /\ response.result = "Ok"
    /\ response.mutated
    /\ \E id \in PollIds :
           /\ id # response.pollId
           /\ PollExists(id)
           /\ \E v \in BagToSet(votes) : v.poll_id = id
    /\ \E v \in BagToSet(votes) : v.poll_id = response.pollId

\* C40: every stored vote's option_index is an index of the current
\* options of its poll, also after updatePoll has made the option list
\* shorter.
C40_VoteIndexWithinOptions ==
    \A v \in BagToSet(votes) :
        PollExists(v.poll_id) =>
            /\ v.option_index >= 0
            /\ v.option_index < Len(polls[v.poll_id].options)

\* the submitVote requests that have not returned
InFlight == {q \in BagToSet(reqs) : q.pc # "done"}

\* C32: every request that has started returns: a result that is being
\* returned reaches its caller, and whenever submitVote requests are under
\* way there comes a state in which all of them have returned, whatever
\* other requests do on the same poll or for the same voter.
C32_EveryRequestReturns ==
    /\ (response # NoCall) ~> (response = NoCall)
    /\ (InFlight # {}) ~> (InFlight = {})

\* two requests of one voter on one poll, under way at the same time, have
\* both returned
C32_Witness ==
    \E q1, q2 \in BagToSet(reqs) :
        /\ q1.pc = "done" /\ q2.pc = "done"
        /\ q1.user = q2.user /\ q1.pollId = q2.pollId
        /\ q1.storeError = "Ok" /\ q2.storeError \in {"DuplicateKey",
                                                     "ForeignKeyViolation"}
====
